---------------------------- MODULE Spec2Model ----------------------------
(***************************************************************************)
(* A model of src/src/features.py: the three streaming analyzers           *)
(*   FeatureExtractor, MostActiveIntervalExtractor, AccessViolationDetector*)
(* with the semantics of Python 2, the language the file is written in     *)
(* (dict.items() is a list, sorted takes cmp).                             *)
(* Every method is an operator from (self, arguments) to a record          *)
(* [self |-> the object after the call, ret |-> the returned value].       *)
(* Timestamps are whole seconds (the log format's resolution), hosts and   *)
(* keys are numbered, and the order of the numbers is the lexicographic    *)
(* order of the strings they stand for.                                    *)
(* The analyzers share no state, so each has its own specification:        *)
(* SpecAVD, SpecFE and SpecMAI. SpecHeaps feeds either extractor, and      *)
(* SpecConfig feeds one analyzer built with any configuration, a           *)
(* count_to_report or a duration of 0 included.                            *)
(* A call that raises returns raised # "None" and the object it leaves.    *)
(* An operator defined right before an operator X and named X_..., such as *)
(* BlockExpired_AtBoundary, is X with a fault: a property that depends on  *)
(* X fails with it.                                                        *)
(***************************************************************************)
EXTENDS Integers, Sequences, FiniteSets, TLC

VARIABLES
    avd,          \* the AccessViolationDetector object
    avdNow,       \* timestamp of the latest record of the feed
    call,         \* the latest process call: arguments, result, the host's state before it
    sinceSuccess, \* per host: the 401 records accepted since the last accepted 200
                  \* (counted up to max_login_attempts)
    without,      \* without[h]: the detector of the run whose feed lacks the records of h
    callWithout,  \* callWithout[h]: what that run returned for the latest record
                  \* (TRUE for the host of the record, which that run never saw)
    sinceCleared, \* per host: the 401 records accepted since the host's latest block was
                  \* cleared (counted up to max_login_attempts), NoneTime while none was
    fe,           \* the FeatureExtractor object
    feSums,       \* per key: the sum of the increments passed to process
    feReports,    \* top_elements_report calls since the latest process call (up to 2)
    feReport,     \* what the latest of them returned
    fePrev,       \* what the one before it returned
    fePre,        \* the table before the latest of them
    mai,          \* the MostActiveIntervalExtractor object
    maiEvents,    \* the timestamps processed so far, in feed order
    maiOffered,   \* the candidates (num, start_time) the latest call's move_interval calls recorded
    maiReports,   \* most_active_intervals calls since the latest process call (up to 2)
    maiReport,    \* what the latest of them returned
    maiPrev,      \* what the one before it returned
    maiMid,       \* a process call has followed a most_active_intervals call
    raised        \* the exception the latest call ended with: "None" or "IndexError"

avdVars == <<avd, avdNow, call, sinceSuccess, without, callWithout, sinceCleared>>

feVars == <<fe, feSums, feReports, feReport, fePrev, fePre>>

maiVars == <<mai, maiEvents, maiOffered, maiReports, maiReport, maiPrev, maiMid>>

vars == <<avdVars, feVars, maiVars, raised>>

-----------------------------------------------------------------------------
(* Bounds of the model *)

MaxTime == 3
MaxAttempts == 2
MaxWindow == 2
MaxBlock == 1
NumKeys == 3
MaxCountToReport == 3
MaxIncrement == 2
MaxCount == 2
MaxStamp == 5
MaxEvents == 4
MaxInterval == 2

(* Program constants *)

NoneTime == -1
FAILED_LOGIN == 401
SUCCESSFUL_LOGIN == 200
OTHER_REPLY == 404

\* two hosts: the one a claim is about and another one
Hosts == {1, 2}
ReplyCodes == {FAILED_LOGIN, SUCCESSFUL_LOGIN, OTHER_REPLY}
Keys == 1..NumKeys

-----------------------------------------------------------------------------
(* Python dict and list helpers *)

DictGet(d, k, default) == IF k \in DOMAIN d THEN d[k] ELSE default

DictPut(d, k, v) == [x \in (DOMAIN d) \cup {k} |-> IF x = k THEN v ELSE d[x]]

DictDel(d, k) == [x \in (DOMAIN d) \ {k} |-> d[x]]

EmptyDict == [x \in {} |-> 0]

Min(a, b) == IF a < b THEN a ELSE b

Range(seq) == {seq[i] : i \in DOMAIN seq}

\* the arrangements of a set of keys: the orders a dict may iterate them in
Arrangements(S) ==
    {seq \in [1..Cardinality(S) -> S] : \A i, j \in DOMAIN seq : i # j => seq[i] # seq[j]}

\* Python's order of 2-tuples
TupleLess(a, b) == a[1] < b[1] \/ (a[1] = b[1] /\ a[2] < b[2])

-----------------------------------------------------------------------------
(* heapq, on a list indexed from 1: the parent of pos is pos \div 2 *)

RECURSIVE heapq_siftdown(_, _, _, _)
heapq_siftdown(heap, startpos, pos, newitem) ==
    IF pos > startpos /\ TupleLess(newitem, heap[pos \div 2])
    THEN heapq_siftdown([heap EXCEPT ![pos] = heap[pos \div 2]], startpos, pos \div 2, newitem)
    ELSE [heap EXCEPT ![pos] = newitem]

heapq_heappush(heap, item) ==
    heapq_siftdown(Append(heap, item), 1, Len(heap) + 1, item)

\* the loop of _siftup: the smaller child moves up until a leaf is reached
RECURSIVE heapq_siftup_loop(_, _)
heapq_siftup_loop(heap, pos) ==
    IF 2 * pos > Len(heap) THEN [heap |-> heap, pos |-> pos]
    ELSE LET childpos == 2 * pos
             rightpos == childpos + 1
             smaller == IF rightpos <= Len(heap) /\ ~TupleLess(heap[childpos], heap[rightpos])
                        THEN rightpos ELSE childpos
         IN  heapq_siftup_loop([heap EXCEPT ![pos] = heap[smaller]], smaller)

heapq_heapreplace(heap, item) ==
    LET leaf == heapq_siftup_loop([heap EXCEPT ![1] = item], 1)
    IN  heapq_siftdown(leaf.heap, 1, leaf.pos, item)

-----------------------------------------------------------------------------
(* Report order *)

\* lines 11-21
report_item_compare(left, right) ==
    IF left[1] > right[1] THEN -1
    ELSE IF left[1] < right[1] THEN 1
    ELSE IF right[2] > left[2] THEN -1
    ELSE IF right[2] < left[2] THEN 1
    ELSE 0

\* sorted(..., cmp=report_item_compare): one item goes before another when cmp < 0
RECURSIVE InsertByCompare(_, _)
InsertByCompare(sorted, item) ==
    IF sorted = <<>> THEN <<item>>
    ELSE IF report_item_compare(item, Head(sorted)) < 0 THEN <<item>> \o sorted
    ELSE <<Head(sorted)>> \o InsertByCompare(Tail(sorted), item)

RECURSIVE sorted_by_compare(_)
sorted_by_compare(list) ==
    IF list = <<>> THEN <<>>
    ELSE InsertByCompare(sorted_by_compare(SubSeq(list, 1, Len(list) - 1)), list[Len(list)])

\* sorted(..., reverse=True): the tuples in descending order
RECURSIVE InsertDescending(_, _)
InsertDescending(sorted, item) ==
    IF sorted = <<>> THEN <<item>>
    ELSE IF TupleLess(Head(sorted), item) THEN <<item>> \o sorted
    ELSE <<Head(sorted)>> \o InsertDescending(Tail(sorted), item)

RECURSIVE sorted_reverse(_)
sorted_reverse(list) ==
    IF list = <<>> THEN <<>>
    ELSE InsertDescending(sorted_reverse(SubSeq(list, 1, Len(list) - 1)), list[Len(list)])

-----------------------------------------------------------------------------
(* FeatureExtractor. self.table is the list table.items() returns, pairs       *)
(* <<key, value>> in the dict's iteration order: an order the dict keeps while *)
(* no key is added and may change in any way when one is.                      *)

FE_init(count_to_report) ==
    [count_to_report |-> count_to_report, table |-> <<>>]

TableKeys(table) == {table[i][1] : i \in DOMAIN table}

\* defaultdict(int): a key that is absent reads as 0
TableGet(table, key) ==
    IF key \in TableKeys(table)
    THEN table[CHOOSE i \in DOMAIN table : table[i][1] = key][2]
    ELSE 0

\* lines 31-33: self.table[metrics] += increment. arrangement is the order the
\* dict iterates its keys in once metrics was added to them
FE_process(self, metrics, increment, arrangement) ==
    LET value == TableGet(self.table, metrics) + increment
        table == IF metrics \in TableKeys(self.table)
                 THEN [i \in DOMAIN self.table |->
                          IF self.table[i][1] = metrics THEN <<metrics, value>>
                          ELSE self.table[i]]
                 ELSE [i \in DOMAIN arrangement |->
                          <<arrangement[i],
                            IF arrangement[i] = metrics THEN value
                            ELSE TableGet(self.table, arrangement[i])>>]
    IN  [self |-> [self EXCEPT !.table = table], ret |-> "None"]

\* line 39: sorted([(value, key) ...], reverse = True)
DirectSort(pairs) == sorted_reverse(pairs)

\* lines 41-42: for key, value in items[:count_to_report]: heappush
RECURSIVE PushAll(_, _)
PushAll(heap_arr, items) ==
    IF items = <<>> THEN heap_arr
    ELSE PushAll(heapq_heappush(heap_arr, <<Head(items)[2], Head(items)[1]>>), Tail(items))

\* line 45: value > heap_arr[0][0]
ExceedsMinimum_Never(value, heap_arr) == FALSE

ExceedsMinimum(value, heap_arr) == value > heap_arr[1][1]

\* lines 44-46: for key, value in items[count_to_report:]: heapreplace
RECURSIVE ReplaceSmaller(_, _)
ReplaceSmaller(heap_arr, items) ==
    IF items = <<>> THEN heap_arr
    ELSE LET key == Head(items)[1]
             value == Head(items)[2]
         IN  ReplaceSmaller(IF ExceedsMinimum(value, heap_arr)
                            THEN heapq_heapreplace(heap_arr, <<value, key>>)
                            ELSE heap_arr,
                            Tail(items))

\* lines 37-48: the list top_elements_report returns
FE_report_list(self) ==
    LET items == self.table
        n == self.count_to_report
    IN  IF Len(items) < n
        THEN DirectSort([i \in DOMAIN items |-> <<items[i][2], items[i][1]>>])
        ELSE sorted_by_compare(ReplaceSmaller(PushAll(<<>>, SubSeq(items, 1, n)),
                                              SubSeq(items, n + 1, Len(items))))

\* lines 37-46: heap_arr once the two loops have handled the first done items
FE_heap_arr(self, done) ==
    LET items == self.table
        n == self.count_to_report
    IN  IF Len(items) < n THEN <<>>
        ELSE IF done <= n THEN PushAll(<<>>, SubSeq(items, 1, done))
        ELSE ReplaceSmaller(PushAll(<<>>, SubSeq(items, 1, n)), SubSeq(items, n + 1, done))

\* line 45: heap_arr[0] is read for the first item behind the seeded ones, and
\* fails on a heap_arr that is empty (heapreplace keeps its length afterwards)
FE_IndexError(self) ==
    LET items == self.table
        n == self.count_to_report
    IN  /\ Len(items) >= n
        /\ PushAll(<<>>, SubSeq(items, 1, n)) = <<>>
        /\ SubSeq(items, n + 1, Len(items)) # <<>>

FE_top_elements_report_Consuming(self) ==
    LET list == FE_report_list(self)
    IN  [self |-> [self EXCEPT !.table =
                      SelectSeq(@, LAMBDA item : <<item[2], item[1]>> \notin Range(list))],
         ret |-> list,
         raised |-> "None"]

\* lines 35-48
FE_top_elements_report(self) ==
    IF FE_IndexError(self)
    THEN [self |-> self, ret |-> <<>>, raised |-> "IndexError"]
    ELSE [self |-> self, ret |-> FE_report_list(self), raised |-> "None"]


-----------------------------------------------------------------------------
(* MostActiveIntervalExtractor *)

MAI_init(count_to_report, interval) ==
    [count_to_report |-> count_to_report,
     timestamp_heap |-> <<>>,
     interval |-> interval,
     request_history |-> <<>>,
     start_time |-> NoneTime]

\* line 76: timestamp - self.start_time > self.interval
OutOfLimit_AtBoundary(self, timestamp) == timestamp - self.start_time >= self.interval

OutOfLimit(self, timestamp) == timestamp - self.start_time > self.interval

\* lines 83-87: the pair (num, self.start_time) move_interval offers to the heap
Candidate(self) == <<Len(self.request_history), self.start_time>>

\* line 86: self.timestamp_heap[0][0] < num
BeatsMinimum_Never(self, num) == FALSE

BeatsMinimum_OrEqual(self, num) == self.timestamp_heap[1][1] <= num

BeatsMinimum(self, num) == self.timestamp_heap[1][1] < num

\* lines 89-90: while self.request_history and self.request_history[0] < self.start_time: pop(0)
DropBefore_Once(request_history, start_time) ==
    IF request_history # <<>> /\ Head(request_history) < start_time
    THEN Tail(request_history)
    ELSE request_history

RECURSIVE DropBefore(_, _)
DropBefore(request_history, start_time) ==
    IF request_history # <<>> /\ Head(request_history) < start_time
    THEN DropBefore(Tail(request_history), start_time)
    ELSE request_history

\* line 84: len(self.timestamp_heap) < self.count_to_report
HeapHasRoom_OrFull(self) == Len(self.timestamp_heap) <= self.count_to_report

HeapHasRoom(self) == Len(self.timestamp_heap) < self.count_to_report

\* line 86: self.timestamp_heap[0] is read when the heap has no room, and fails
\* on a heap that is empty
MAI_IndexError(self) == ~HeapHasRoom(self) /\ self.timestamp_heap = <<>>

\* lines 80-90
MAI_move_interval(self) ==
    IF MAI_IndexError(self)
    THEN [self |-> self, ret |-> "None", raised |-> "IndexError"]
    ELSE
    LET num == Candidate(self)[1]
        heap == IF HeapHasRoom(self)
                THEN heapq_heappush(self.timestamp_heap, Candidate(self))
                ELSE IF BeatsMinimum(self, num)
                THEN heapq_heapreplace(self.timestamp_heap, Candidate(self))
                ELSE self.timestamp_heap
        start_time == self.start_time + 1
    IN  [self |-> [self EXCEPT !.timestamp_heap = heap,
                               !.start_time = start_time,
                               !.request_history = DropBefore(@, start_time)],
         ret |-> "None",
         raised |-> "None"]

\* lines 76-77: while timestamp - self.start_time > self.interval: self.move_interval()
\* offered lists the candidates of the move_interval calls made
RECURSIVE MoveWhileOutOfLimit(_, _)
MoveWhileOutOfLimit(self, timestamp) ==
    IF OutOfLimit(self, timestamp)
    THEN LET moved == MAI_move_interval(self)
             rest == MoveWhileOutOfLimit(moved.self, timestamp)
         IN  IF moved.raised # "None"
             THEN [self |-> moved.self, offered |-> <<>>, raised |-> moved.raised]
             ELSE [self |-> rest.self, offered |-> <<Candidate(self)>> \o rest.offered,
                   raised |-> rest.raised]
    ELSE [self |-> self, offered |-> <<>>, raised |-> "None"]

\* lines 70-78
MAI_process(self, timestamp) ==
    LET started == IF self.start_time = NoneTime
                   THEN [self EXCEPT !.start_time = timestamp]
                   ELSE self
        moved == MoveWhileOutOfLimit(started, timestamp)
    IN  IF moved.raised # "None"
        THEN [self |-> moved.self, ret |-> "None", offered |-> moved.offered,
              raised |-> moved.raised]
        ELSE [self |-> [moved.self EXCEPT !.request_history = Append(@, timestamp)],
              ret |-> "None",
              offered |-> moved.offered,
              raised |-> "None"]

\* lines 94-97: for i in range(0, count_to_report): if not request_history: break; move_interval()
RECURSIVE MoveRemaining(_, _)
MoveRemaining(self, rounds) ==
    IF rounds <= 0 \/ self.request_history = <<>>
    THEN [self |-> self, offered |-> <<>>, raised |-> "None"]
    ELSE LET moved == MAI_move_interval(self)
             rest == MoveRemaining(moved.self, rounds - 1)
         IN  IF moved.raised # "None"
             THEN [self |-> moved.self, offered |-> <<>>, raised |-> moved.raised]
             ELSE [self |-> rest.self, offered |-> <<Candidate(self)>> \o rest.offered,
                   raised |-> rest.raised]

\* lines 92-98
MAI_most_active_intervals(self) ==
    LET moved == MoveRemaining(self, self.count_to_report)
    IN  [self |-> moved.self,
         ret |-> IF moved.raised # "None" THEN <<>>
                 ELSE sorted_by_compare(moved.self.timestamp_heap),
         offered |-> moved.offered,
         raised |-> moved.raised]

\* the report of an extractor fed a whole stream: process each, then report
RECURSIVE MAI_feed(_, _)
MAI_feed(self, timestamps) ==
    IF timestamps = <<>> THEN MAI_most_active_intervals(self).ret
    ELSE MAI_feed(MAI_process(self, Head(timestamps)).self, Tail(timestamps))

-----------------------------------------------------------------------------
(* AccessViolationDetector *)

AVD_init(max_login_attempts, time_interval, access_block_interval) ==
    [max_login_attempts |-> max_login_attempts,
     time_interval |-> time_interval,
     access_block_interval |-> access_block_interval,
     failed_login_counter |-> EmptyDict,
     blocked_hosts |-> EmptyDict]

\* line 127: timestamp - block_time > self.access_block_interval
BlockExpired_AtBoundary(self, timestamp, block_time) ==
    timestamp - block_time >= self.access_block_interval

BlockExpired(self, timestamp, block_time) ==
    timestamp - block_time > self.access_block_interval

\* line 138: (timestamp - failed_attempts[0]) > self.time_interval
NoLongerRelevant_AtBoundary(self, timestamp, attempt) ==
    timestamp - attempt >= self.time_interval

NoLongerRelevant(self, timestamp, attempt) ==
    timestamp - attempt > self.time_interval

\* lines 138-139: while failed_attempts and ...: failed_attempts.pop(0)
RECURSIVE RemoveIrrelevant(_, _, _)
RemoveIrrelevant(self, timestamp, failed_attempts) ==
    IF failed_attempts # <<>> /\ NoLongerRelevant(self, timestamp, Head(failed_attempts))
    THEN RemoveIrrelevant(self, timestamp, Tail(failed_attempts))
    ELSE failed_attempts

\* line 141: len(failed_attempts) >= self.max_login_attempts
TooManyAttempts(self, failed_attempts) ==
    Len(failed_attempts) >= self.max_login_attempts

\* lines 133-142: the 401 branch; returns the object after it
FailedAttempt(self, host, timestamp) ==
    LET appended == Append(DictGet(self.failed_login_counter, host, <<>>), timestamp)
        failed_attempts == RemoveIrrelevant(self, timestamp, appended)
        counted == [self EXCEPT !.failed_login_counter = DictPut(@, host, failed_attempts)]
    IN  IF TooManyAttempts(self, failed_attempts)
        THEN [counted EXCEPT !.blocked_hosts = DictPut(@, host, timestamp)]
        ELSE counted

\* lines 146-147: if host in self.failed_login_counter: self.failed_login_counter[host] = []
ResetCounter_AllHosts(self, host) ==
    IF host \in DOMAIN self.failed_login_counter
    THEN [self EXCEPT !.failed_login_counter = [h \in DOMAIN @ |-> <<>>]]
    ELSE self

ResetCounter_Never(self, host) == self

ResetCounter(self, host) ==
    IF host \in DOMAIN self.failed_login_counter
    THEN [self EXCEPT !.failed_login_counter = DictPut(@, host, <<>>)]
    ELSE self

\* line 148: the value returned for a record of a host that is not blocked
AllowedResult_DenyTrigger(self, after, host) == host \notin DOMAIN after.blocked_hosts

AllowedResult(self, after, host) == TRUE

\* line 131: return False; the object a record of a host that stays blocked leaves
StayBlocked_ExtendBlock(self, host, timestamp, reply_code) ==
    IF reply_code = FAILED_LOGIN
    THEN [self EXCEPT !.blocked_hosts = DictPut(@, host, timestamp)]
    ELSE self

StayBlocked(self, host, timestamp, reply_code) == self

\* lines 123-148
AVD_process(self, host, timestamp, reply_code) ==
    IF host \in DOMAIN self.blocked_hosts
    THEN LET block_time == self.blocked_hosts[host]
         IN  IF BlockExpired(self, timestamp, block_time)
             THEN [self |-> [self EXCEPT !.blocked_hosts = DictDel(@, host)], ret |-> TRUE]
             ELSE [self |-> StayBlocked(self, host, timestamp, reply_code), ret |-> FALSE]
    ELSE LET after == IF reply_code = FAILED_LOGIN THEN FailedAttempt(self, host, timestamp)
                      ELSE IF reply_code = SUCCESSFUL_LOGIN THEN ResetCounter(self, host)
                      ELSE self
         IN  [self |-> after, ret |-> AllowedResult(self, after, host)]

\* The returned values of a feed of records <<host, timestamp, reply_code>>
RECURSIVE AVD_feed(_, _)
AVD_feed(self, records) ==
    IF records = <<>> THEN <<>>
    ELSE LET r == Head(records)
             done == AVD_process(self, r[1], r[2], r[3])
         IN  <<done.ret>> \o AVD_feed(done.self, Tail(records))

-----------------------------------------------------------------------------
(* The detector fed by a driver: records in non-decreasing timestamp order *)

NoCall == [host |-> 0, timestamp |-> 0, reply_code |-> 0, ret |-> TRUE,
           pre_failed |-> <<>>, pre_blocked |-> NoneTime]

AVD_Init ==
    /\ \E m \in 1..MaxAttempts, w \in 1..MaxWindow, b \in 1..MaxBlock :
          /\ avd = AVD_init(m, w, b)
          /\ without = [h \in Hosts |-> AVD_init(m, w, b)]
    /\ avdNow = 0
    /\ call = NoCall
    /\ sinceSuccess = [h \in Hosts |-> 0]
    /\ callWithout = [h \in Hosts |-> TRUE]
    /\ sinceCleared = [h \in Hosts |-> NoneTime]

AVD_Process(host, timestamp, reply_code) ==
    LET done == AVD_process(avd, host, timestamp, reply_code)
        accepted == host \notin DOMAIN avd.blocked_hosts
    IN  /\ raised = "None"
        /\ avd' = done.self
        /\ avdNow' = timestamp
        /\ raised' = "None"
        /\ call' = [host |-> host, timestamp |-> timestamp, reply_code |-> reply_code,
                    ret |-> done.ret,
                    pre_failed |-> DictGet(avd.failed_login_counter, host, <<>>),
                    pre_blocked |-> DictGet(avd.blocked_hosts, host, NoneTime)]
        /\ sinceSuccess' = [sinceSuccess EXCEPT ![host] =
              IF accepted /\ reply_code = SUCCESSFUL_LOGIN THEN 0
              ELSE IF accepted /\ reply_code = FAILED_LOGIN
              THEN Min(@ + 1, avd.max_login_attempts)
              ELSE @]
        /\ without' = [h \in Hosts |->
                          IF h = host THEN without[h]
                          ELSE AVD_process(without[h], host, timestamp, reply_code).self]
        /\ callWithout' = [h \in Hosts |->
                          IF h = host THEN TRUE
                          ELSE AVD_process(without[h], host, timestamp, reply_code).ret]
        /\ sinceCleared' = [sinceCleared EXCEPT ![host] =
              IF ~accepted /\ done.ret THEN 0
              ELSE IF accepted /\ reply_code = FAILED_LOGIN /\ @ # NoneTime
              THEN Min(@ + 1, avd.max_login_attempts)
              ELSE @]
        /\ UNCHANGED <<feVars, maiVars>>

-----------------------------------------------------------------------------
(* The extractor fed by a driver *)

FE_Init ==
    /\ \E n \in 1..MaxCountToReport : fe = FE_init(n)
    /\ feSums = EmptyDict
    /\ feReports = 0
    /\ feReport = <<>>
    /\ fePrev = <<>>
    /\ fePre = <<>>

FE_Process(metrics, increment, arrangement) ==
    /\ raised = "None"
    /\ DictGet(feSums, metrics, 0) + increment <= MaxCount
    /\ fe' = FE_process(fe, metrics, increment, arrangement).self
    /\ raised' = "None"
    /\ feSums' = DictPut(feSums, metrics, DictGet(feSums, metrics, 0) + increment)
    /\ feReports' = 0
    /\ feReport' = <<>>
    /\ fePrev' = <<>>
    /\ fePre' = <<>>
    /\ UNCHANGED <<avdVars, maiVars>>

FE_Report ==
    LET done == FE_top_elements_report(fe)
    IN  /\ raised = "None"
        /\ feReports < 2
        /\ fe' = done.self
        /\ raised' = done.raised
        /\ feReport' = done.ret
        /\ feReports' = feReports + 1
        /\ fePrev' = feReport
        /\ fePre' = fe.table
        /\ UNCHANGED <<feSums, avdVars, maiVars>>

-----------------------------------------------------------------------------
(* The interval extractor fed by a driver: timestamps in non-decreasing order *)

MAI_Init ==
    /\ \E n \in 1..MaxCountToReport, interval \in 1..MaxInterval : mai = MAI_init(n, interval)
    /\ maiEvents = <<>>
    /\ maiOffered = <<>>
    /\ maiReports = 0
    /\ maiReport = <<>>
    /\ maiPrev = <<>>
    /\ maiMid = FALSE

MAI_Process(timestamp) ==
    LET done == MAI_process(mai, timestamp)
    IN  /\ raised = "None"
        /\ Len(maiEvents) < MaxEvents
        /\ maiEvents # <<>> => timestamp >= maiEvents[Len(maiEvents)]
        /\ mai' = done.self
        /\ raised' = done.raised
        /\ maiEvents' = Append(maiEvents, timestamp)
        /\ maiOffered' = done.offered
        /\ maiReports' = 0
        /\ maiReport' = <<>>
        /\ maiPrev' = <<>>
        /\ maiMid' = (maiMid \/ maiReports > 0)
        /\ UNCHANGED <<avdVars, feVars>>

MAI_Report ==
    LET done == MAI_most_active_intervals(mai)
    IN  /\ raised = "None"
        /\ maiReports < 2
        /\ mai' = done.self
        /\ raised' = done.raised
        /\ maiOffered' = done.offered
        /\ maiReports' = maiReports + 1
        /\ maiReport' = done.ret
        /\ maiPrev' = maiReport
        /\ UNCHANGED <<maiEvents, maiMid, avdVars, feVars>>

-----------------------------------------------------------------------------
\* The analyzers a specification does not feed stay as constructed.
AVD_Idle ==
    /\ avd = AVD_init(1, 1, 1)
    /\ without = [h \in Hosts |-> AVD_init(1, 1, 1)]
    /\ avdNow = 0
    /\ call = NoCall
    /\ sinceSuccess = [h \in Hosts |-> 0]
    /\ callWithout = [h \in Hosts |-> TRUE]
    /\ sinceCleared = [h \in Hosts |-> NoneTime]

FE_Idle ==
    /\ fe = FE_init(1)
    /\ feSums = EmptyDict
    /\ feReports = 0
    /\ feReport = <<>>
    /\ fePrev = <<>>
    /\ fePre = <<>>

MAI_Idle ==
    /\ mai = MAI_init(1, 1)
    /\ maiEvents = <<>>
    /\ maiOffered = <<>>
    /\ maiReports = 0
    /\ maiReport = <<>>
    /\ maiPrev = <<>>
    /\ maiMid = FALSE

InitAVD ==
    /\ AVD_Init
    /\ FE_Idle
    /\ MAI_Idle
    /\ raised = "None"

NextAVD ==
    \E host \in Hosts, timestamp \in avdNow..MaxTime, reply_code \in ReplyCodes :
        AVD_Process(host, timestamp, reply_code)

SpecAVD == InitAVD /\ [][NextAVD]_vars

InitFE ==
    /\ FE_Init
    /\ AVD_Idle
    /\ MAI_Idle
    /\ raised = "None"

NextFE ==
    \/ \E metrics \in Keys, increment \in 0..MaxIncrement :
          \E arrangement \in IF metrics \in TableKeys(fe.table)
                             THEN {[i \in DOMAIN fe.table |-> fe.table[i][1]]}
                             ELSE Arrangements(TableKeys(fe.table) \cup {metrics}) :
              FE_Process(metrics, increment, arrangement)
    \/ FE_Report

SpecFE == InitFE /\ [][NextFE]_vars

InitMAI ==
    /\ MAI_Init
    /\ AVD_Idle
    /\ FE_Idle
    /\ raised = "None"

NextMAI ==
    \/ \E timestamp \in 0..MaxStamp : MAI_Process(timestamp)
    \/ MAI_Report

SpecMAI == InitMAI /\ [][NextMAI]_vars

\* A run that feeds one of the two extractors main builds, whichever gets the
\* first call; the other stays as constructed.
InitHeaps ==
    /\ AVD_Idle
    /\ \/ FE_Init /\ MAI_Idle
       \/ FE_Idle /\ MAI_Init
    /\ raised = "None"

NextHeaps ==
    \/ MAI_Idle /\ NextFE
    \/ FE_Idle /\ NextMAI

SpecHeaps == InitHeaps /\ [][NextHeaps]_vars

\* The constructors take whatever they are given (lines 27-29, 63-68, 116-121):
\* a count_to_report or a duration of 0 as well.
FE_InitAny ==
    /\ \E n \in 0..MaxCountToReport : fe = FE_init(n)
    /\ feSums = EmptyDict
    /\ feReports = 0
    /\ feReport = <<>>
    /\ fePrev = <<>>
    /\ fePre = <<>>

MAI_InitAny ==
    /\ \E n \in 0..MaxCountToReport, interval \in 0..MaxInterval : mai = MAI_init(n, interval)
    /\ maiEvents = <<>>
    /\ maiOffered = <<>>
    /\ maiReports = 0
    /\ maiReport = <<>>
    /\ maiPrev = <<>>
    /\ maiMid = FALSE

AVD_InitAny ==
    /\ \E m \in 1..MaxAttempts, w \in 0..MaxWindow, b \in 0..MaxBlock :
          /\ avd = AVD_init(m, w, b)
          /\ without = [h \in Hosts |-> AVD_init(m, w, b)]
    /\ avdNow = 0
    /\ call = NoCall
    /\ sinceSuccess = [h \in Hosts |-> 0]
    /\ callWithout = [h \in Hosts |-> TRUE]
    /\ sinceCleared = [h \in Hosts |-> NoneTime]

\* A run that feeds one analyzer, built with any configuration; a call that
\* raises ends the run, as main catches RuntimeError only (line 218).
InitConfig ==
    /\ \/ FE_InitAny /\ MAI_Idle /\ AVD_Idle
       \/ FE_Idle /\ MAI_InitAny /\ AVD_Idle
       \/ FE_Idle /\ MAI_Idle /\ AVD_InitAny
    /\ raised = "None"

NextConfig ==
    \/ MAI_Idle /\ AVD_Idle /\ NextFE
    \/ FE_Idle /\ AVD_Idle /\ NextMAI
    \/ FE_Idle /\ MAI_Idle /\ NextAVD

SpecConfig == InitConfig /\ [][NextConfig]_vars

-----------------------------------------------------------------------------
(* Claims about AccessViolationDetector, checked under SpecAVD *)

Called == call.host \in Hosts
WasBlocked == call.pre_blocked # NoneTime
NowBlocked(host) == host \in DOMAIN avd.blocked_hosts
NowFailed(host) == DictGet(avd.failed_login_counter, host, <<>>)

\* C1: a record of a host blocked since b is denied, and the block kept, while
\* timestamp - b <= block_duration; the first record with timestamp - b >
\* block_duration is allowed and takes the host out of the blocked set. With
\* 3 attempts / 20 s / 300 s and failures at 0, 1, 2 the records at 2+299 and
\* 2+300 are denied and the record at 2+301 is allowed.
C1_BlockBoundary ==
    /\ WasBlocked =>
          IF call.timestamp - call.pre_blocked <= avd.access_block_interval
          THEN /\ call.ret = FALSE
               /\ DictGet(avd.blocked_hosts, call.host, NoneTime) = call.pre_blocked
          ELSE /\ call.ret = TRUE
               /\ ~NowBlocked(call.host)
    /\ AVD_feed(AVD_init(3, 20, 300),
                << <<1, 0, FAILED_LOGIN>>, <<1, 1, FAILED_LOGIN>>, <<1, 2, FAILED_LOGIN>>,
                   <<1, 301, SUCCESSFUL_LOGIN>>, <<1, 302, FAILED_LOGIN>>,
                   <<1, 303, SUCCESSFUL_LOGIN>> >>)
          = <<TRUE, TRUE, TRUE, FALSE, FALSE, TRUE>>

\* a 401 record arriving one second after the block ran out is allowed
C1_Witness ==
    /\ WasBlocked
    /\ call.timestamp - call.pre_blocked = avd.access_block_interval + 1
    /\ call.reply_code = FAILED_LOGIN
    /\ call.ret = TRUE
    /\ ~NowBlocked(call.host)

\* C2: every record of a host that is not in the blocked set when the call
\* starts is allowed, the 401 that sets the block included; a record is denied
\* only when its host was blocked before the call and the block has not run out.
C2_AllowedUnlessBlocked ==
    /\ (Called /\ ~WasBlocked) => call.ret = TRUE
    /\ call.ret = FALSE =>
          /\ WasBlocked
          /\ call.timestamp - call.pre_blocked <= avd.access_block_interval

\* the 401 that sets the block is itself allowed
C2_Witness ==
    /\ Called /\ ~WasBlocked
    /\ call.reply_code = FAILED_LOGIN
    /\ NowBlocked(call.host)
    /\ avd.blocked_hosts[call.host] = call.timestamp
    /\ call.ret = TRUE

StillInWindow(attempt) == call.timestamp - attempt <= avd.time_interval

\* C3: a 401 record of a host that is not blocked is appended to the host's
\* history, exactly the entries older than failure_window are dropped (one that
\* is failure_window old stays), and the host is blocked, since this timestamp,
\* if and only if at least max_attempts entries remain.
C3_BlockTrigger ==
    (Called /\ ~WasBlocked /\ call.reply_code = FAILED_LOGIN) =>
        LET kept == SelectSeq(Append(call.pre_failed, call.timestamp), StillInWindow)
        IN  /\ NowFailed(call.host) = kept
            /\ NowBlocked(call.host) <=> Len(kept) >= avd.max_login_attempts
            /\ NowBlocked(call.host) => avd.blocked_hosts[call.host] = call.timestamp

\* a block set by a history from which an old entry was dropped and in which an
\* entry exactly failure_window old was kept
C3_Witness ==
    /\ Called /\ ~WasBlocked /\ call.reply_code = FAILED_LOGIN
    /\ \E i \in DOMAIN call.pre_failed :
          call.timestamp - call.pre_failed[i] = avd.time_interval
    /\ \E i \in DOMAIN call.pre_failed :
          call.timestamp - call.pre_failed[i] > avd.time_interval
    /\ NowBlocked(call.host)

\* C4: a 200 record of a host that is not blocked empties the host's history;
\* a later block of the host is set only after max_attempts 401 records accepted
\* after that 200, all of them within failure_window of the one that sets it.
C4_ResetOnSuccess ==
    /\ (Called /\ ~WasBlocked /\ call.reply_code = SUCCESSFUL_LOGIN) =>
          NowFailed(call.host) = <<>>
    /\ (Called /\ ~WasBlocked /\ NowBlocked(call.host)) =>
          /\ sinceSuccess[call.host] >= avd.max_login_attempts
          /\ \A i \in DOMAIN NowFailed(call.host) : StillInWindow(NowFailed(call.host)[i])

\* a 200 record empties a history that was one failure short of a block
C4_Witness ==
    /\ Called /\ ~WasBlocked /\ call.reply_code = SUCCESSFUL_LOGIN
    /\ call.pre_failed # <<>>
    /\ Len(call.pre_failed) = avd.max_login_attempts - 1
    /\ NowFailed(call.host) = <<>>

HostState(self, host) ==
    <<host \in DOMAIN self.failed_login_counter,
      DictGet(self.failed_login_counter, host, <<>>),
      DictGet(self.blocked_hosts, host, NoneTime)>>

\* C5: the decision for a record of h2 is the decision of the run whose feed
\* lacks every record of h1, and the failure history and blocked_since of h2 are
\* those of that run: no call for h1 changes them.
C5_HostIsolation ==
    /\ Called => \A h1 \in Hosts \ {call.host} : callWithout[h1] = call.ret
    /\ \A h1 \in Hosts : \A h2 \in Hosts \ {h1} :
          HostState(avd, h2) = HostState(without[h1], h2)

\* a record of one host is allowed, with failures on its history, while the other
\* host is blocked
C5_Witness ==
    /\ Called /\ call.ret = TRUE /\ ~NowBlocked(call.host)
    /\ NowFailed(call.host) # <<>>
    /\ \E h \in Hosts \ {call.host} : NowBlocked(h) /\ NowFailed(h) # <<>>

-----------------------------------------------------------------------------
(* Claims about FeatureExtractor, checked under SpecFE *)

Reported == feReports >= 1
ReportedKeys == {feReport[i][2] : i \in DOMAIN feReport}

\* C6: with count_to_report >= 1 the report holds min(count_to_report, number
\* of distinct keys) pairs (count, key) of distinct keys, each count is the sum
\* of the increments processed for its key, and no key left out has a count
\* greater than a reported one.
C6_TopElements ==
    Reported =>
        /\ Len(feReport) = Min(fe.count_to_report, Cardinality(DOMAIN feSums))
        /\ Cardinality(ReportedKeys) = Len(feReport)
        /\ \A i \in DOMAIN feReport :
              /\ feReport[i][2] \in DOMAIN feSums
              /\ feReport[i][1] = feSums[feReport[i][2]]
        /\ \A key \in (DOMAIN feSums) \ ReportedKeys : \A i \in DOMAIN feReport :
              feSums[key] <= feReport[i][1]

\* a report of fewer keys than the table holds, one of them taken from behind
\* the first count_to_report items
C6_Witness ==
    /\ Reported
    /\ Len(fe.table) > fe.count_to_report
    /\ \E i \in DOMAIN fe.table : i > fe.count_to_report /\ fe.table[i][1] \in ReportedKeys
    /\ \E key \in DOMAIN feSums : key \notin ReportedKeys /\ feSums[key] > 0

\* C7: the report is ordered by count descending and, among equal counts, by
\* key ascending, on the direct-sort path and on the heap path.
C7_ReportOrder ==
    Reported =>
        \A i, j \in DOMAIN feReport :
            i < j => \/ feReport[i][1] > feReport[j][1]
                     \/ feReport[i][1] = feReport[j][1] /\ feReport[i][2] < feReport[j][2]

\* C8: top_elements_report leaves the table as it was, and a second call with no
\* process call in between returns what the first returned.
C8_ReportIdempotent ==
    /\ Reported => fe.table = fePre
    /\ feReports = 2 => feReport = fePrev

\* two reports in a row of a table with more keys than are reported
C8_Witness ==
    /\ feReports = 2
    /\ Len(fe.table) > fe.count_to_report
    /\ Len(feReport) >= 2

-----------------------------------------------------------------------------
(* Claims about MostActiveIntervalExtractor, checked under SpecMAI *)

\* the events processed so far that lie in start <= t <= start + interval
EventsWithin(start) ==
    Cardinality({i \in DOMAIN maiEvents :
                    start <= maiEvents[i] /\ maiEvents[i] - start <= mai.interval})

\* the events processed so far that lie in start <= t < start + interval
EventsWithinHalfOpen(start) ==
    Cardinality({i \in DOMAIN maiEvents :
                    start <= maiEvents[i] /\ maiEvents[i] - start < mai.interval})

\* the whole stream was processed and then reported, with no report before its end
ReportedAtEnd == maiReports >= 1 /\ ~maiMid

ReportedStarts == {maiReport[i][2] : i \in DOMAIN maiReport}

\* C9: in the report made after the stream every pair (count, start) carries the
\* number of events t with start <= t and t - start <= interval, and when the
\* report holds count_to_report pairs no window left out of it, starting at a
\* whole second from the first timestamp on, counts more events than the
\* smallest reported count: the reported counts are the largest that exist.
\* The 10 events at seconds 1,6,9,11,12,13,14,14,15,15 with interval 3600 and
\* count_to_report 2 are reported as [(10, 1), (9, 2)].
C9_BusiestWindows ==
    /\ ReportedAtEnd =>
          /\ \A i \in DOMAIN maiReport : maiReport[i][1] = EventsWithin(maiReport[i][2])
          /\ (Len(maiReport) = mai.count_to_report /\ maiEvents # <<>>) =>
                \A start \in (maiEvents[1]..(MaxStamp + 1)) \ ReportedStarts :
                    \A i \in DOMAIN maiReport : EventsWithin(start) <= maiReport[i][1]
    /\ MAI_feed(MAI_init(2, 3600), <<1, 6, 9, 11, 12, 13, 14, 14, 15, 15>>)
          = << <<10, 1>>, <<9, 2>> >>

\* a full report whose pairs differ in count, one of them recorded while the
\* stream was processed and one by the drain at its end
C9_Witness ==
    /\ ReportedAtEnd /\ maiReports = 1
    /\ Len(maiReport) = mai.count_to_report
    /\ Len(maiReport) >= 2
    /\ maiReport[1][1] > maiReport[Len(maiReport)][1]
    /\ maiOffered # <<>>
    /\ \E i \in DOMAIN maiReport : \A j \in DOMAIN maiOffered : maiReport[i] # maiOffered[j]
    /\ \E i \in DOMAIN maiReport : \E j \in DOMAIN maiOffered : maiReport[i] = maiOffered[j]

\* C10 as stated: the count of a recorded candidate is the number of processed
\* events in the half-open interval start <= t < start + interval.
C10_HalfOpenWindow ==
    \A i \in DOMAIN maiOffered : maiOffered[i][1] = EventsWithinHalfOpen(maiOffered[i][2])

\* C10 as amended: while no process call has followed a most_active_intervals
\* call, the count of every candidate move_interval records is the number of
\* processed events in the closed interval start <= t <= start + interval.
C10_ClosedWindow ==
    ~maiMid =>
        \A i \in DOMAIN maiOffered : maiOffered[i][1] = EventsWithin(maiOffered[i][2])

\* a candidate is recorded that counts an event exactly interval seconds after
\* its start
C10_Witness ==
    /\ ~maiMid
    /\ \E i \in DOMAIN maiOffered : \E j \in DOMAIN maiEvents :
          /\ maiEvents[j] = maiOffered[i][2] + mai.interval
          /\ maiOffered[i][1] = EventsWithin(maiOffered[i][2])
          /\ maiOffered[i][1] > EventsWithinHalfOpen(maiOffered[i][2])

-----------------------------------------------------------------------------
(* More claims about AccessViolationDetector, checked under SpecAVD *)

IsBlocked(host) == NowBlocked(host)
IsClean(host) == ~NowBlocked(host) /\ Len(NowFailed(host)) = 0
IsSuspicious(host) ==
    /\ ~NowBlocked(host)
    /\ Len(NowFailed(host)) \in 1..(avd.max_login_attempts - 1)

\* C11: between process calls every host is blocked (it has a blocked_since),
\* clean (not blocked, no stored failure) or suspicious (not blocked, 1 to
\* max_attempts - 1 stored failures), and in one of the three only: a host that
\* is not blocked never holds max_attempts or more stored failure timestamps.
C11_ThreeStates ==
    \A host \in Hosts :
        /\ IsBlocked(host) \/ IsClean(host) \/ IsSuspicious(host)
        /\ ~(IsBlocked(host) /\ IsClean(host))
        /\ ~(IsBlocked(host) /\ IsSuspicious(host))
        /\ ~(IsClean(host) /\ IsSuspicious(host))

\* C14: a record that is denied leaves the whole detector as it was, whatever
\* its reply code: the blocked_since and the failure history of its host and the
\* state of every other host.
C14_DeniedChangesNothing == [][call'.ret = FALSE => avd' = avd]_vars

\* a 401 record is denied for a host with a history while the other host has a
\* history too
C14_Witness ==
    /\ Called /\ call.ret = FALSE
    /\ call.reply_code = FAILED_LOGIN
    /\ avd.blocked_hosts[call.host] < call.timestamp
    /\ NowFailed(call.host) # <<>>
    /\ \E h \in Hosts \ {call.host} : NowFailed(h) # <<>>

\* C15: a block set after an earlier block of the host was cleared is set by
\* max_attempts 401 records accepted after the clearing, all of them within
\* failure_window of the one that sets it: a failure stored before the earlier
\* block counts for nothing.
C15_ReblockNeedsNewFailures ==
    (Called /\ ~WasBlocked /\ NowBlocked(call.host) /\ sinceCleared[call.host] # NoneTime) =>
        /\ sinceCleared[call.host] >= avd.max_login_attempts
        /\ \A i \in DOMAIN NowFailed(call.host) : StillInWindow(NowFailed(call.host)[i])

-----------------------------------------------------------------------------
(* More claims about FeatureExtractor, checked under SpecFE *)

\* an extractor that holds the mapping of self and iterates its keys in the
\* order arrangement
Rearranged(self, arrangement) ==
    [self EXCEPT !.table =
        [i \in DOMAIN arrangement |-> <<arrangement[i], TableGet(self.table, arrangement[i])>>]]

\* C17: every extractor with the count_to_report and the key-to-count mapping of
\* this one returns the same report, whatever the order its keys are iterated
\* in, and among keys that tie for the last reported place the smaller ones are
\* the ones reported.
C17_OrderIndependent ==
    /\ \A arrangement \in Arrangements(TableKeys(fe.table)) :
          FE_report_list(Rearranged(fe, arrangement)) = FE_report_list(fe)
    /\ LET list == FE_report_list(fe)
       IN  \A i \in DOMAIN list : \A key \in TableKeys(fe.table) :
              (list[i][1] = TableGet(fe.table, key) /\ key < list[i][2]) =>
                  \E j \in DOMAIN list : list[j][2] = key

-----------------------------------------------------------------------------
(* More claims about MostActiveIntervalExtractor, checked under SpecMAI *)

\* request_history is sorted and lies in start_time <= t <= start_time + interval
TrailingHistory(self) ==
    /\ \A i, j \in DOMAIN self.request_history :
          i < j => self.request_history[i] <= self.request_history[j]
    /\ \A i \in DOMAIN self.request_history :
          /\ self.start_time <= self.request_history[i]
          /\ self.request_history[i] - self.start_time <= self.interval

\* move_interval takes from request_history the timestamps before the new
\* start_time and no other
RemovesExactly(self) ==
    LET moved == MAI_move_interval(self).self
    IN  moved.request_history =
            SelectSeq(self.request_history, LAMBDA t : t >= moved.start_time)

C18_RepeatedReportsAgree == maiReports = 2 => maiReport = maiPrev

\* the second of two reports in a row moved the window further, over timestamps
\* the first one left in the history, and offered candidates to a full heap
C18_Witness ==
    /\ maiReports = 2
    /\ maiOffered # <<>>
    /\ Len(maiReport) = mai.count_to_report
    /\ \E i \in DOMAIN maiOffered : maiOffered[i][1] >= 1

\* C19: the report made after the stream was processed is the report of an
\* extractor that was fed the same stream and asked for no report before its end.
C19_MidStreamReport ==
    maiReports = 1 =>
        maiReport = MAI_feed(MAI_init(mai.count_to_report, mai.interval), maiEvents)

-----------------------------------------------------------------------------
(* Claims about the result heaps of both extractors, checked under SpecHeaps *)

\* C12: timestamp_heap never holds more than count_to_report entries, after any
\* process or most_active_intervals call, and the heap top_elements_report
\* builds from the table holds at most count_to_report entries after each item
\* its loops handle.
C12_BoundedHeaps ==
    /\ Len(mai.timestamp_heap) <= mai.count_to_report
    /\ \A done \in 0..Len(fe.table) :
          Len(FE_heap_arr(fe, done)) <= fe.count_to_report

\* a full timestamp_heap to which the latest call offered one candidate more
\* than it holds
C12_Witness ==
    /\ Len(mai.timestamp_heap) = mai.count_to_report
    /\ Len(maiOffered) > mai.count_to_report
    /\ \E i \in DOMAIN maiOffered : maiOffered[i][1] >= 1

-----------------------------------------------------------------------------
(* A claim about the configuration of the analyzers, checked under SpecConfig *)

Misconfigured ==
    \/ fe.count_to_report < 1
    \/ mai.count_to_report < 1
    \/ mai.interval < 1
    \/ avd.time_interval < 1
    \/ avd.access_block_interval < 1

SomeCallRan ==
    \/ fe.table # <<>> \/ feReports > 0
    \/ maiEvents # <<>> \/ maiReports > 0
    \/ Called

\* C13: an analyzer given a count_to_report of 0 or a duration that is not
\* positive does not leave its constructor, so no process or report call runs
\* on a misconfigured analyzer and no call ends with an error.
C13_RejectedAtConstruction ==
    /\ SomeCallRan => ~Misconfigured
    /\ raised = "None"

=============================================================================
